---- MODULE Spec2Model ----
(***************************************************************************)
(* Model of skmultiflow.data.imbalanced_stream.ImbalancedStream: a         *)
(* meta-stream that wraps a labelled stream and re-emits its instances so  *)
(* that the class of each output instance is drawn from a configured       *)
(* ratio, using one FIFO buffer per class.                                 *)
(*                                                                         *)
(* Numbers: a ratio entry is an integer count of units of 1e-7, so that    *)
(* One stands for 1.0 and rounding to 6 decimals is a real operation.      *)
(* Indices are 1-based here (Python's index_class i is i+1).               *)
(* Python's None is the empty sequence <<>> and a set value x is <<x>>.    *)
(***************************************************************************)
EXTENDS Integers, Sequences, FiniteSets, TLC

\* ------------------------------------------------------------------ bounds
MaxStream == 4      \* longest wrapped stream explored
MaxBatch == 2       \* largest batch_size explored
MaxRatioLen == 2    \* longest ratio explored by the configuration space
MaxTape == 3        \* outputs of a random engine that are recorded

\* --------------------------------------------------------------- constants
One == 10000000     \* 1.0 in units of 1e-7
Decimals == 6       \* np.round(..., 6)

None == <<>>
Some(x) == <<x>>
Val(o) == o[1]

\* The wrapped stream's class registry (stream.target_values) and the
\* element types a ratio entry can have.
Registry == <<0, 1>>
Kinds == {"float", "float64", "int"}
RatioValues == {0 - 5000000, 0, 5000000, 5000004, One, 15000000}

VARIABLES
    ratio,            \* self.ratio: [tuple: BOOLEAN, p: Seq([type, v])]
    stream,           \* the wrapped stream's data: a sequence of class values
    orig_n_targets,   \* original_stream.n_targets
    random_state,     \* self.random_state: "None", "int" or "RandomState"
    sample_idx,       \* wrapped stream: number of instances handed out
    n_targets,        \* self.n_targets (None or Some(n))
    target_values,    \* self.target_values (None or Some(registry))
    rng,              \* self._random_state (None or Some(engine))
    tape,             \* the first outputs of the seeded or configured engine
    pos,              \* how many outputs that engine has produced (up to MaxTape)
    drawn,            \* draws made in this preparation cycle (up to MaxTape + 1)
    calls,            \* the steps run by the latest prepare/restart, in order
    instance_buffer,  \* self.instance_buffer (None or Some(seq of FIFO seqs))
    no_more_samples,  \* self.no_more_samples, the exhaustion flag
    lastPrepare,      \* outcome of the latest prepare/restart
    lastOp,           \* the latest public call
    raised,           \* what the latest public call raised ("none" if it returned)
    flagBefore,       \* no_more_samples when the latest next_sample was entered
    lastN,            \* batch_size of the latest next_sample
    draws,            \* the single draws of the latest next_sample: [k, x, y, pulled]
    features,         \* first array returned by the latest next_sample
    targets,          \* second array returned by the latest next_sample
    served            \* instances served since the buffers were allocated

vars == <<ratio, stream, orig_n_targets, random_state, sample_idx, n_targets,
          target_values, rng, tape, pos, drawn, calls, instance_buffer, no_more_samples, lastPrepare, lastOp, raised,
          flagBefore, lastN, draws, features, targets, served>>

config == <<ratio, stream, orig_n_targets, random_state>>

\* ------------------------------------------------------------ input spaces
RECURSIVE SeqsUpTo(_, _)
SeqsUpTo(S, n) ==
    IF n = 0 THEN {<<>>}
    ELSE LET shorter == SeqsUpTo(S, n - 1)
         IN  shorter \cup {Append(s, x) : s \in {t \in shorter : Len(t) = n - 1}, x \in S}

RatioEntries == {e \in [type : Kinds, v : RatioValues] : e.type = "int" => e.v % One = 0}

Ratios == [tuple : BOOLEAN, p : SeqsUpTo(RatioEntries, MaxRatioLen) \ {<<>>}]

Range(s) == {s[i] : i \in 1..Len(s)}

Streams == SeqsUpTo(Range(Registry), MaxStream)

\* --------------------------------------------------------- numeric helpers
RECURSIVE SumV(_)
SumV(p) == IF p = <<>> THEN 0 ELSE p[1].v + SumV(Tail(p))

RECURSIVE Pow10(_)
Pow10(n) == IF n = 0 THEN 1 ELSE 10 * Pow10(n - 1)

\* np.round(x, Decimals) of x given in units of 1e-7, as a count of units of
\* 1e-6: round half to even.
NpRound(x) ==
    LET step == One \div Pow10(Decimals)
        q == x \div step
        r == x % step
    IN  IF 2 * r < step THEN q
        ELSE IF 2 * r > step THEN q + 1
        ELSE IF q % 2 = 0 THEN q ELSE q + 1

\* ------------------------------------------------------ the wrapped stream
\* original_stream.has_more_samples()
OrigHasMore(idx) == idx < Len(stream)

\* original_stream.next_sample(): the next instance, tagged with its pull
\* sequence number as its feature vector, or None when there is none left.
OrigNextSample(idx) ==
    IF idx < Len(stream) THEN Some([feat |-> idx + 1, target |-> stream[idx + 1]])
    ELSE None

\* ------------------------------------------------------------- validation
\* _check_errors: the first check that raises, or "none".
AllOfType(p, t) == \A i \in 1..Len(p) : p[i].type = t

CheckErrors(r, tv) ==
    IF ~r.tuple THEN "not_tuple"
    ELSE IF Len(r.p) # Len(tv) THEN "length"
    ELSE IF ~(AllOfType(r.p, "float") \/ AllOfType(r.p, "float64")) THEN "type"
    ELSE IF NpRound(SumV(r.p)) # Pow10(Decimals) THEN "sum"
    ELSE "none"

\* ------------------------------------------------------------ preparation
\* (variant: range(len(target_values) + 1), one buffer too many)
EmptyBuffersOneMore(tv) == [i \in 1..(Len(tv) + 1) |-> <<>>]

EmptyBuffers(tv) == [i \in 1..Len(tv) |-> <<>>]

\* check_random_state(self.random_state): an int seeds a new engine, a
\* RandomState instance is used as it is, None is numpy's global engine.
CheckRandomState(seed) ==
    IF seed = "int" THEN "seeded" ELSE IF seed = "RandomState" THEN "instance" ELSE "global"

\* (variant: the seeded engine is built once and kept)
EnginePositionKept(seed, p) == p

\* The position of the engine returned by check_random_state: a new engine
\* seeded with an int starts over, a configured instance goes on from where
\* it is. The global engine is not followed (any output can come next).
EnginePosition(seed, p) == IF seed = "int" THEN 0 ELSE p

\* The steps of _prepare_for_use, in the order in which they run.
PrepareSteps ==
    IF orig_n_targets # 1 THEN <<"_set_params_after_init">>
    ELSE <<"_set_params_after_init", "check_random_state", "allocate_buffers",
           "clear_flag", "_check_errors">>

\* (variant: existing buffers are kept, only missing ones are allocated)
PrepareForUseKeepsBuffers ==
    /\ n_targets' = Some(orig_n_targets)
    /\ IF orig_n_targets # 1
       THEN /\ raised' = "schema"
            /\ lastPrepare' = "schema"
            /\ UNCHANGED <<target_values, rng, pos, instance_buffer, no_more_samples, served>>
       ELSE /\ target_values' = Some(Registry)
            /\ rng' = Some(CheckRandomState(random_state))
            /\ pos' = EnginePosition(random_state, pos)
            /\ instance_buffer' = IF instance_buffer = None THEN Some(EmptyBuffers(Registry))
                                  ELSE instance_buffer
            /\ no_more_samples' = FALSE
            /\ served' = <<>>
            /\ LET err == CheckErrors(ratio, Registry)
               IN  /\ raised' = IF err = "none" THEN "none" ELSE "config"
                   /\ lastPrepare' = IF err = "none" THEN "ok" ELSE err
    /\ drawn' = 0
    /\ flagBefore' = FALSE
    /\ lastN' = 0
    /\ draws' = <<>>
    /\ features' = <<>>
    /\ targets' = <<>>
    /\ UNCHANGED tape

\* (variant: the number of targets is checked after the other steps)
PrepareForUseLateSchemaCheck ==
    /\ n_targets' = Some(orig_n_targets)
    /\ target_values' = Some(Registry)
    /\ rng' = Some(CheckRandomState(random_state))
    /\ pos' = EnginePosition(random_state, pos)
    /\ instance_buffer' = Some(EmptyBuffers(Registry))
    /\ no_more_samples' = FALSE
    /\ served' = <<>>
    /\ LET err == CheckErrors(ratio, Registry)
       IN  /\ raised' = IF err # "none" THEN "config"
                        ELSE IF orig_n_targets # 1 THEN "schema" ELSE "none"
           /\ lastPrepare' = IF err # "none" THEN err
                             ELSE IF orig_n_targets # 1 THEN "schema" ELSE "ok"
    /\ drawn' = 0
    /\ flagBefore' = FALSE
    /\ lastN' = 0
    /\ draws' = <<>>
    /\ features' = <<>>
    /\ targets' = <<>>
    /\ UNCHANGED tape

\* _prepare_for_use: _set_params_after_init, check_random_state, buffer
\* allocation, flag reset, _check_errors, in this order; a raise keeps the
\* assignments made before it.
PrepareForUse ==
    /\ n_targets' = Some(orig_n_targets)
    /\ IF orig_n_targets # 1
       THEN /\ raised' = "schema"
            /\ lastPrepare' = "schema"
            /\ UNCHANGED <<target_values, rng, pos, instance_buffer, no_more_samples, served>>
       ELSE /\ target_values' = Some(Registry)
            /\ rng' = Some(CheckRandomState(random_state))
            /\ pos' = EnginePosition(random_state, pos)
            /\ instance_buffer' = Some(EmptyBuffers(Registry))
            /\ no_more_samples' = FALSE
            /\ served' = <<>>
            /\ LET err == CheckErrors(ratio, Registry)
               IN  /\ raised' = IF err = "none" THEN "none" ELSE "config"
                   /\ lastPrepare' = IF err = "none" THEN "ok" ELSE err
    /\ drawn' = 0
    /\ flagBefore' = FALSE
    /\ lastN' = 0
    /\ draws' = <<>>
    /\ features' = <<>>
    /\ targets' = <<>>
    /\ UNCHANGED tape

\* prepare_for_use(): the wrapped stream's preparation, then _prepare_for_use.
Prepare ==
    /\ sample_idx' = 0
    /\ PrepareForUse
    /\ calls' = <<"original_stream.prepare_for_use">> \o PrepareSteps
    /\ lastOp' = "prepare"
    /\ UNCHANGED config

\* (variant: restart() goes through prepare_for_use())
RestartThroughPrepare ==
    /\ sample_idx' = 0
    /\ PrepareForUse
    /\ calls' = <<"original_stream.restart", "original_stream.prepare_for_use">>
                   \o PrepareSteps
    /\ lastOp' = "restart"
    /\ UNCHANGED config

\* restart(): the wrapped stream's restart, then _prepare_for_use.
Restart ==
    /\ sample_idx' = 0
    /\ PrepareForUse
    /\ calls' = <<"original_stream.restart">> \o PrepareSteps
    /\ lastOp' = "restart"
    /\ UNCHANGED config

\* (variant: the wrapped stream is not consulted)
has_more_samples_flag_only == ~no_more_samples

has_more_samples == OrigHasMore(sample_idx) /\ ~no_more_samples

\* ---------------------------------------------------------------- sampling
\* self._random_state.choice(np.arange(n), p=ratio) raises ValueError when p
\* has another size than n, holds a negative entry, or does not sum to 1
\* (numpy's tolerance, about 1.5e-8, is below one unit of this model).
ChoiceRaises(p, n) ==
    \/ Len(p) # n
    \/ \E i \in 1..Len(p) : p[i].v < 0
    \/ SumV(p) # One

\* The class indices choice can return: those of positive probability.
ChoiceSupport(p) == {i \in 1..Len(p) : p[i].v > 0}

\* self.target_values.index(target): the first position holding target.
IndexOf(tv, target) ==
    CHOOSE i \in 1..Len(tv) : tv[i] = target /\ \A j \in 1..(i - 1) : tv[j] # target

\* The while loop of _next_individual_sample: pull until buffer k holds an
\* instance or a pull fails. st = [buf, flag, idx, pulled].
\* (variant: every pulled instance is filed into the drawn class's buffer)
RECURSIVE FillBufferIntoDrawn(_, _, _)
FillBufferIntoDrawn(st, k, tv) ==
    IF Len(st.buf[k]) # 0 THEN st
    ELSE LET inst == OrigNextSample(st.idx)
         IN  IF inst = None
             THEN [st EXCEPT !.flag = TRUE]
             ELSE LET pair == <<Val(inst).feat, Val(inst).target>>
                  IN  FillBufferIntoDrawn([st EXCEPT !.buf[k] = Append(@, pair),
                                                     !.idx = @ + 1,
                                                     !.pulled = @ + 1], k, tv)

\* (variant: a pulled instance of another class than k is dropped)
RECURSIVE FillBufferDiscarding(_, _, _)
FillBufferDiscarding(st, k, tv) ==
    IF Len(st.buf[k]) # 0 THEN st
    ELSE LET inst == OrigNextSample(st.idx)
         IN  IF inst = None
             THEN [st EXCEPT !.flag = TRUE]
             ELSE LET j == IndexOf(tv, Val(inst).target)
                      pair == <<Val(inst).feat, Val(inst).target>>
                  IN  FillBufferDiscarding(
                          [st EXCEPT !.buf[j] = IF j = k THEN Append(@, pair) ELSE @,
                                     !.idx = @ + 1,
                                     !.pulled = @ + 1], k, tv)

\* (variant: the loop runs while buffer k holds at most one instance)
RECURSIVE FillBufferKeepsSpare(_, _, _)
FillBufferKeepsSpare(st, k, tv) ==
    IF Len(st.buf[k]) > 1 THEN st
    ELSE LET inst == OrigNextSample(st.idx)
         IN  IF inst = None
             THEN [st EXCEPT !.flag = (Len(st.buf[k]) = 0) \/ st.flag]
             ELSE LET j == IndexOf(tv, Val(inst).target)
                      pair == <<Val(inst).feat, Val(inst).target>>
                  IN  FillBufferKeepsSpare([st EXCEPT !.buf[j] = Append(@, pair),
                                                      !.idx = @ + 1,
                                                      !.pulled = @ + 1], k, tv)

\* (variant: the flag is set as soon as the wrapped stream has run out)
RECURSIVE FillBufferFlagsAtEnd(_, _, _)
FillBufferFlagsAtEnd(st, k, tv) ==
    IF Len(st.buf[k]) # 0 THEN st
    ELSE LET inst == OrigNextSample(st.idx)
         IN  IF inst = None
             THEN [st EXCEPT !.flag = TRUE]
             ELSE LET j == IndexOf(tv, Val(inst).target)
                      pair == <<Val(inst).feat, Val(inst).target>>
                  IN  FillBufferFlagsAtEnd([st EXCEPT !.buf[j] = Append(@, pair),
                                                      !.idx = @ + 1,
                                                      !.pulled = @ + 1,
                                                      !.flag = ~OrigHasMore(st.idx + 1)],
                                           k, tv)

\* (variant: a draw gives up after two pulls)
RECURSIVE FillBufferCapped(_, _, _)
FillBufferCapped(st, k, tv) ==
    IF Len(st.buf[k]) # 0 THEN st
    ELSE LET inst == OrigNextSample(st.idx)
         IN  IF inst = None \/ st.pulled >= 2
             THEN [st EXCEPT !.flag = TRUE]
             ELSE LET j == IndexOf(tv, Val(inst).target)
                      pair == <<Val(inst).feat, Val(inst).target>>
                  IN  FillBufferCapped([st EXCEPT !.buf[j] = Append(@, pair),
                                                  !.idx = @ + 1,
                                                  !.pulled = @ + 1], k, tv)

RECURSIVE FillBuffer(_, _, _)
FillBuffer(st, k, tv) ==
    IF Len(st.buf[k]) # 0 THEN st
    ELSE LET inst == OrigNextSample(st.idx)
         IN  IF inst = None
             THEN [st EXCEPT !.flag = TRUE]
             ELSE LET j == IndexOf(tv, Val(inst).target)
                      pair == <<Val(inst).feat, Val(inst).target>>
                  IN  FillBuffer([st EXCEPT !.buf[j] = Append(@, pair),
                                            !.idx = @ + 1,
                                            !.pulled = @ + 1], k, tv)

\* (variant: pop() instead of pop(0), the newest buffered instance is served)
NextIndividualSamplePopLast(st, k, tv) ==
    LET f == FillBuffer([buf |-> st.buf, flag |-> st.flag, idx |-> st.idx, pulled |-> 0],
                        k, tv)
    IN  IF f.flag
        THEN [buf |-> f.buf, flag |-> TRUE, idx |-> f.idx,
              out |-> [k |-> k, x |-> None, y |-> None, pulled |-> f.pulled]]
        ELSE LET n == Len(f.buf[k])
                 instance == f.buf[k][n]
             IN  [buf |-> [f.buf EXCEPT ![k] = SubSeq(@, 1, n - 1)], flag |-> FALSE,
                  idx |-> f.idx,
                  out |-> [k |-> k, x |-> Some(instance[1]), y |-> Some(instance[2]),
                           pulled |-> f.pulled]]

\* (variant: the flag is local to one draw instead of an attribute)
NextIndividualSampleLocalFlag(st, k, tv) ==
    LET f == FillBuffer([buf |-> st.buf, flag |-> FALSE, idx |-> st.idx, pulled |-> 0],
                        k, tv)
    IN  IF f.flag
        THEN [buf |-> f.buf, flag |-> TRUE, idx |-> f.idx,
              out |-> [k |-> k, x |-> None, y |-> None, pulled |-> f.pulled]]
        ELSE LET instance == Head(f.buf[k])
             IN  [buf |-> [f.buf EXCEPT ![k] = Tail(@)], flag |-> FALSE, idx |-> f.idx,
                  out |-> [k |-> k, x |-> Some(instance[1]), y |-> Some(instance[2]),
                           pulled |-> f.pulled]]

\* (variant: the sentinel is returned only when buffer k is empty, so a
\* non-empty buffer keeps serving after the flag is set)
NextIndividualSampleServesAfterFlag(st, k, tv) ==
    LET f == FillBuffer([buf |-> st.buf, flag |-> st.flag, idx |-> st.idx, pulled |-> 0],
                        k, tv)
    IN  IF Len(f.buf[k]) = 0
        THEN [buf |-> f.buf, flag |-> TRUE, idx |-> f.idx,
              out |-> [k |-> k, x |-> None, y |-> None, pulled |-> f.pulled]]
        ELSE LET instance == Head(f.buf[k])
             IN  [buf |-> [f.buf EXCEPT ![k] = Tail(@)], flag |-> f.flag, idx |-> f.idx,
                  out |-> [k |-> k, x |-> Some(instance[1]), y |-> Some(instance[2]),
                           pulled |-> f.pulled]]

\* _next_individual_sample for the drawn class index k: the state after the
\* call and the pair returned (x and y are None for the "no more" pair).
NextIndividualSample(st, k, tv) ==
    LET f == FillBuffer([buf |-> st.buf, flag |-> st.flag, idx |-> st.idx, pulled |-> 0],
                        k, tv)
    IN  IF f.flag
        THEN [buf |-> f.buf, flag |-> TRUE, idx |-> f.idx,
              out |-> [k |-> k, x |-> None, y |-> None, pulled |-> f.pulled]]
        ELSE LET instance == Head(f.buf[k])
             IN  [buf |-> [f.buf EXCEPT ![k] = Tail(@)], flag |-> FALSE, idx |-> f.idx,
                  out |-> [k |-> k, x |-> Some(instance[1]), y |-> Some(instance[2]),
                           pulled |-> f.pulled]]

\* The loop of next_sample over the drawn class indices ks: the state after
\* it, the single draws made, and the two lists collected.
RECURSIVE RunBatch(_, _, _)
RunBatch(acc, ks, tv) ==
    IF ks = <<>> THEN acc
    ELSE LET r == NextIndividualSample(acc, Head(ks), tv)
             keep == r.out.x # None /\ r.out.y # None
         IN  RunBatch([buf |-> r.buf, flag |-> r.flag, idx |-> r.idx,
                       draws |-> Append(acc.draws, r.out),
                       features |-> IF keep THEN Append(acc.features, Val(r.out.x))
                                    ELSE acc.features,
                       targets |-> IF keep THEN Append(acc.targets, Val(r.out.y))
                                   ELSE acc.targets],
                      Tail(ks), tv)

BatchOf(buf, flag, idx, ks, tv) ==
    RunBatch([buf |-> buf, flag |-> flag, idx |-> idx,
              draws |-> <<>>, features |-> <<>>, targets |-> <<>>], ks, tv)

RECURSIVE Zip(_, _)
Zip(xs, ys) == IF xs = <<>> THEN <<>> ELSE <<(<<xs[1], ys[1]>>)>> \o Zip(Tail(xs), Tail(ys))

\* A call that raises returns nothing and, here, has changed nothing.
NextSampleRaises(what) ==
    /\ raised' = what
    /\ draws' = <<>>
    /\ features' = <<>>
    /\ targets' = <<>>
    /\ UNCHANGED <<sample_idx, instance_buffer, no_more_samples, served, tape, pos, drawn>>

Min(a, b) == IF a < b THEN a ELSE b

\* Whether the outputs of the engine in use are followed: an engine seeded
\* with an int or a configured RandomState instance produces a fixed
\* stream of outputs, of which the first MaxTape are recorded in tape.
Tracked == rng # None /\ Val(rng) # "global"

\* The class indices the next n calls of choice can return: the recorded
\* outputs where the engine stands on them, any index of the support else.
DrawOptions(n) ==
    {ks \in [1..n -> ChoiceSupport(ratio.p)] :
        Tracked => \A i \in 1..n : pos + i <= Len(tape) => ks[i] = tape[pos + i]}

\* The record after the draws ks: outputs met for the first time are added.
TapeAfter(ks) ==
    IF Tracked
    THEN tape \o SubSeq(ks, Len(tape) - pos + 1, Min(Len(ks), MaxTape - pos))
    ELSE tape

\* next_sample(batch_size)
NextSample(batch_size) ==
    /\ lastOp' = "next_sample"
    /\ flagBefore' = no_more_samples
    /\ lastN' = batch_size
    /\ UNCHANGED <<config, n_targets, target_values, rng, lastPrepare, calls>>
    /\ IF batch_size = 0
       THEN /\ raised' = "none"
            /\ draws' = <<>>
            /\ features' = <<>>
            /\ targets' = <<>>
            /\ UNCHANGED <<sample_idx, instance_buffer, no_more_samples, served,
                           tape, pos, drawn>>
       ELSE IF rng = None
       THEN NextSampleRaises("AttributeError")
       ELSE IF ChoiceRaises(ratio.p, Len(Val(target_values)))
       THEN NextSampleRaises("ValueError")
       ELSE \E ks \in DrawOptions(batch_size) :
               LET b == BatchOf(Val(instance_buffer), no_more_samples, sample_idx,
                                ks, Val(target_values))
               IN  /\ raised' = "none"
                   /\ instance_buffer' = Some(b.buf)
                   /\ no_more_samples' = b.flag
                   /\ sample_idx' = b.idx
                   /\ draws' = b.draws
                   /\ features' = b.features
                   /\ targets' = b.targets
                   /\ served' = served \o Zip(b.features, b.targets)
                   /\ tape' = TapeAfter(ks)
                   /\ pos' = IF Tracked THEN Min(pos + batch_size, MaxTape) ELSE pos
                   /\ drawn' = IF Tracked THEN Min(drawn + batch_size, MaxTape + 1)
                               ELSE drawn

\* ----------------------------------------------------------- specification
\* The state after __init__.
InitObject ==
    /\ sample_idx = 0
    /\ n_targets = None
    /\ target_values = None
    /\ rng = None
    /\ tape = <<>>
    /\ pos = 0
    /\ drawn = 0
    /\ calls = <<>>
    /\ instance_buffer = None
    /\ no_more_samples = FALSE
    /\ lastPrepare = "never"
    /\ lastOp = "init"
    /\ raised = "none"
    /\ flagBefore = FALSE
    /\ lastN = 0
    /\ draws = <<>>
    /\ features = <<>>
    /\ targets = <<>>
    /\ served = <<>>

\* Ratios of the documented form (a tuple of Python floats, one per class)
\* over the values 0.0, 0.5 and 1.0, against every wrapped stream.
SamplingRatios ==
    {r \in Ratios : /\ r.tuple
                    /\ Len(r.p) = Len(Registry)
                    /\ \A i \in 1..Len(r.p) : r.p[i].type = "float" /\ r.p[i].v \in {0, One \div 2, One}}

\* The default random_state (None), every documented ratio, every stream.
Init ==
    /\ ratio \in SamplingRatios
    /\ stream \in Streams
    /\ orig_n_targets \in {1, 2}
    /\ random_state = "None"
    /\ InitObject

\* An int seed or a RandomState instance as random_state.
InitSeed ==
    /\ ratio \in SamplingRatios
    /\ stream \in {<<0, 1, 1>>, <<1, 0, 0, 1>>, <<1, 1, 0, 0>>}
    /\ orig_n_targets \in {1, 2}
    /\ random_state \in {"int", "RandomState"}
    /\ InitObject

\* Every ratio of the configuration space, against one wrapped stream.
InitCfg ==
    /\ ratio \in Ratios
    /\ stream = <<1, 0, 1>>
    /\ orig_n_targets \in {1, 2}
    /\ random_state = "None"
    /\ InitObject

Next ==
    \/ Prepare
    \/ Restart
    \/ \E n \in 0..MaxBatch : NextSample(n)

Spec == Init /\ [][Next]_vars

SpecCfg == InitCfg /\ [][Next]_vars

SpecSeed == InitSeed /\ [][Next]_vars

\* ------------------------------------------------------------------ claims
Prepared == lastPrepare = "ok"

Returned == lastOp = "next_sample" /\ raised = "none"

IsSentinel(d) == d.x = None /\ d.y = None

CycleStart == {"prepare", "restart"}

\* C1: after a successful prepare(), every single draw that does not return
\* the sentinel returns an instance whose class value is registry[k] for the
\* class index k drawn in that call, so the labels of a returned batch are
\* the registry values of the drawn indices, position by position.
C1_DrawnClassServed ==
    Prepared =>
        /\ \A i \in 1..Len(draws) :
              ~IsSentinel(draws[i]) => Val(draws[i].y) = Val(target_values)[draws[i].k]
        /\ \A i \in 1..Len(targets) : targets[i] = Val(target_values)[draws[i].k]

\* A served draw that had to pull past an instance of another class.
C1_Witness ==
    /\ Prepared
    /\ \E i \in 1..Len(draws) : ~IsSentinel(draws[i]) /\ draws[i].pulled >= 2

\* C3: within one preparation cycle, two served instances of the same class
\* are served in the order in which they were pulled (the feature of an
\* instance is its pull sequence number).
C3_FifoPerClass ==
    \A i \in 1..Len(served) : \A j \in (i + 1)..Len(served) :
        served[i][2] = served[j][2] => served[i][1] < served[j][1]

\* Two instances of one class served after an instance pulled later than
\* both: the two were waiting in the buffer together.
C3_Witness ==
    \E i \in 1..Len(served) : \E j \in (i + 1)..Len(served) : \E l \in 1..(i - 1) :
        /\ served[i][2] = served[j][2]
        /\ served[l][1] > served[j][1]

\* What next_sample(n) can return from the current state: the set of pairs
\* <<features, targets>>, one per choice of drawn indices.
NextSampleResults(n) ==
    IF n = 0 THEN {<<(<<>>), (<<>>)>>}
    ELSE {LET b == BatchOf(Val(instance_buffer), no_more_samples, sample_idx,
                          ks, Val(target_values))
          IN  <<b.features, b.targets>> :
          ks \in DrawOptions(n)}

NextSampleWouldRaise(n) ==
    n > 0 /\ (rng = None \/ ChoiceRaises(ratio.p, Len(Val(target_values))))

\* C4: once set, the exhaustion flag stays set until the next prepare or
\* restart; while it is set has_more_samples() is false and next_sample(n)
\* returns two empty sequences for every n, whatever the buffers hold.
C4_ExhaustionIsTerminal ==
    /\ [][(no_more_samples /\ lastOp' \notin CycleStart) => no_more_samples']_vars
    /\ [](no_more_samples =>
            /\ ~has_more_samples
            /\ \A n \in 0..MaxBatch :
                  /\ ~NextSampleWouldRaise(n)
                  /\ NextSampleResults(n) = {<<(<<>>), (<<>>)>>})

\* A next_sample entered with the flag set, with an instance still buffered.
C4_Witness ==
    /\ Returned
    /\ flagBefore
    /\ lastN >= 1
    /\ features = <<>>
    /\ \E i \in 1..Len(Val(instance_buffer)) : Len(Val(instance_buffer)[i]) > 0

\* C5: after a successful prepare(), has_more_samples() is true exactly when
\* the wrapped stream reports more instances and the exhaustion flag is not
\* set; once false it stays false until the next preparation cycle.
C5_HasMore ==
    /\ [](Prepared => (has_more_samples <=> (OrigHasMore(sample_idx) /\ ~no_more_samples)))
    /\ [][(Prepared /\ ~has_more_samples /\ lastOp' \notin CycleStart)
            => ~has_more_samples']_vars

\* has_more_samples() is false although the flag is unset, and a call was
\* made in that state.
C5_Witness ==
    /\ Prepared
    /\ Returned
    /\ lastN >= 1
    /\ ~has_more_samples
    /\ ~no_more_samples
    /\ draws[1].pulled = 0

PrepareFailed == lastPrepare \in {"schema", "not_tuple", "length", "type", "sum"}

\* C6: when prepare() or restart() fails, has_more_samples() is false or the
\* resampler is otherwise not ready, and no next_sample(n) can yield an
\* instance.
C6_FailedPrepareUnusable ==
    PrepareFailed =>
        /\ ~has_more_samples \/ \A n \in 1..MaxBatch : NextSampleWouldRaise(n)
        /\ features = <<>>
        /\ \A n \in 0..MaxBatch :
              NextSampleWouldRaise(n) \/ NextSampleResults(n) = {<<(<<>>), (<<>>)>>}

IsFloating(e) == e.type \in {"float", "float64"}

\* C7: for a single-label stream, prepare() fails with a configuration error
\* exactly when the ratio is not a tuple, or its length is not the number of
\* classes, or some entry is not floating-point, or its sum rounded to 6
\* decimals is not 1.0.
C7_ValidationIff ==
    (orig_n_targets = 1 /\ lastOp \in CycleStart) =>
        (raised = "config" <=>
            \/ ~ratio.tuple
            \/ Len(ratio.p) # Len(Registry)
            \/ \E i \in 1..Len(ratio.p) : ~IsFloating(ratio.p[i])
            \/ NpRound(SumV(ratio.p)) # Pow10(Decimals))

\* C8: after a successful prepare(), every ratio entry lies in [0.0, 1.0]
\* and the entries sum to 1.0.
C8_RatioIsDistribution ==
    Prepared =>
        /\ \A i \in 1..Len(ratio.p) : 0 <= ratio.p[i].v /\ ratio.p[i].v <= One
        /\ SumV(ratio.p) = One

\* C9: after a successful prepare(), next_sample(n) never raises.
C9_NextSampleNeverRaises ==
    (Prepared /\ lastOp = "next_sample") => raised = "none"

RECURSIVE NonSentinel(_)
NonSentinel(ds) ==
    IF ds = <<>> THEN <<>>
    ELSE IF IsSentinel(ds[1]) THEN NonSentinel(Tail(ds))
    ELSE <<(<<Val(ds[1].x), Val(ds[1].y)>>)>> \o NonSentinel(Tail(ds))

\* C10: next_sample(n) returns two sequences of one length m <= n, aligned
\* position by position, holding the non-sentinel results of its n draws in
\* draw order; m < n only if the exhaustion flag is set by the end of the
\* call, and then the batch is the results of the draws before the first
\* sentinel.
C10_BatchAssembly ==
    Returned =>
        /\ Len(draws) = lastN
        /\ Len(features) = Len(targets)
        /\ Len(features) <= lastN
        /\ Zip(features, targets) = NonSentinel(draws)
        /\ \A i \in 1..Len(features) : stream[features[i]] = targets[i]
        /\ Len(features) < lastN =>
              /\ no_more_samples
              /\ \A i \in 1..lastN : IsSentinel(draws[i]) <=> i > Len(features)

\* A batch cut short by exhaustion in the middle of the call.
C10_Witness ==
    /\ Returned
    /\ ~flagBefore
    /\ Len(features) >= 1
    /\ Len(features) < lastN

AllBuffersEmpty == \A i \in 1..Len(Val(instance_buffer)) : Val(instance_buffer)[i] = <<>>

ByRestart == calls # <<>> /\ calls[1] = "original_stream.restart"

\* What a preparation cycle entered with empty buffers, the flag unset and
\* the wrapped stream at its start produces for the drawn indices ks.
Replay(ks) == BatchOf(EmptyBuffers(Registry), FALSE, 0, ks, Registry)

\* C11: a successful restart() leaves every class buffer empty and the
\* exhaustion flag unset, and what is served after it was pulled after it:
\* each served instance is one of the sample_idx instances pulled in this
\* cycle, and none is served twice.
C11_RestartClears ==
    /\ (lastOp = "restart" /\ Prepared) =>
          AllBuffersEmpty /\ ~no_more_samples /\ served = <<>> /\ sample_idx = 0
    /\ (ByRestart /\ Prepared) =>
          /\ \A i \in 1..Len(served) : served[i][1] \in 1..sample_idx
          /\ \A i \in 1..Len(served) : \A j \in (i + 1)..Len(served) :
                served[i][1] # served[j][1]

\* An instance served in a cycle started by restart(), after an earlier
\* cycle of the seeded engine that set the flag with an instance buffered.
C11_Witness ==
    /\ random_state = "int"
    /\ ByRestart
    /\ Prepared
    /\ served # <<>>
    /\ drawn < Len(tape)
    /\ Replay(tape).flag
    /\ \E i \in 1..Len(Registry) : Replay(tape).buf[i] # <<>>

RECURSIVE Without(_, _)
Without(cs, c) ==
    IF cs = <<>> THEN <<>>
    ELSE IF cs[1] = c THEN Without(Tail(cs), c)
    ELSE <<cs[1]>> \o Without(Tail(cs), c)

\* C12 (as stated): restart() invokes the wrapped stream's restart and then
\* the full sequence of prepare(): the wrapped stream's own preparation,
\* metadata copy, buffer allocation, flag reset, validation.
C12_RestartRunsFullPrepare ==
    (lastOp = "restart" /\ orig_n_targets = 1) =>
        Without(calls, "check_random_state") =
            <<"original_stream.restart", "original_stream.prepare_for_use",
              "_set_params_after_init", "allocate_buffers", "clear_flag", "_check_errors">>

\* C12 (amended): restart() invokes the wrapped stream's restart and then
\* the sequence of prepare() without the wrapped stream's own preparation:
\* metadata copy, buffer allocation, flag reset, validation, in this order.
C12_RestartRunsOwnPrepare ==
    (lastOp = "restart" /\ orig_n_targets = 1) =>
        /\ Without(calls, "check_random_state") =
              <<"original_stream.restart", "_set_params_after_init", "allocate_buffers",
                "clear_flag", "_check_errors">>
        /\ Tail(calls) = PrepareSteps

C12_Witness ==
    /\ lastOp = "restart"
    /\ Prepared
    /\ Len(calls) > 1

\* C13 (as stated): the instances produced after restart() are those
\* produced after the first prepare() for the same number of draws,
\* whichever engine is configured.
C13_SameOutputAfterRestart ==
    (Prepared /\ ByRestart /\ Tracked /\ drawn <= Len(tape)) =>
        LET first == Replay(SubSeq(tape, 1, drawn))
        IN  served = Zip(first.features, first.targets)

\* C13 (amended): the same, when random_state is an int seed.
C13_SameOutputAfterReseed ==
    (Prepared /\ ByRestart /\ random_state = "int" /\ drawn <= Len(tape)) =>
        LET first == Replay(SubSeq(tape, 1, drawn))
        IN  served = Zip(first.features, first.targets)

\* Two draws replayed after a restart that followed a longer cycle.
C13_Witness ==
    /\ Prepared
    /\ ByRestart
    /\ random_state = "int"
    /\ lastOp = "next_sample"
    /\ drawn >= 2
    /\ drawn < Len(tape)
    /\ Len(served) >= 2

\* C14: prepare() and restart() fail with the schema error whenever the
\* wrapped stream has another number of targets than 1, before buffers are
\* allocated, the flag is reset or the ratio is validated.
C14_SchemaErrorFirst ==
    (lastOp \in CycleStart /\ orig_n_targets # 1) =>
        /\ raised = "schema"
        /\ lastPrepare = "schema"
        /\ instance_buffer = None
        /\ target_values = None
        /\ rng = None
        /\ ~no_more_samples
        /\ Tail(calls) = <<"_set_params_after_init">>

\* The schema error raised for a ratio that validation would reject too.
C14_Witness ==
    /\ lastOp = "restart"
    /\ lastPrepare = "schema"
    /\ CheckErrors(ratio, Registry) # "none"

\* The pairs held in the buffers, buffer after buffer.
RECURSIVE Flatten(_)
Flatten(bufs) == IF bufs = <<>> THEN <<>> ELSE bufs[1] \o Flatten(Tail(bufs))

\* The instances the wrapped stream hands out from position a + 1 to b.
PulledPairs(a, b) == [i \in 1..(b - a) |-> <<a + i, stream[a + i]>>]

\* C15: every instance pulled in this cycle is held in exactly one buffer
\* or has been served exactly once: the served and the buffered pairs are
\* the sample_idx pairs pulled so far, each once.
C15_Conservation ==
    instance_buffer # None =>
        LET all == served \o Flatten(Val(instance_buffer))
        IN  /\ Len(all) = sample_idx
            /\ Range(all) = Range(PulledPairs(0, sample_idx))

C15_Witness ==
    /\ Prepared
    /\ Len(served) >= 2
    /\ Len(Flatten(Val(instance_buffer))) >= 2

\* The state _next_individual_sample starts from, and its result for the
\* class index k.
Here == [buf |-> Val(instance_buffer), flag |-> no_more_samples, idx |-> sample_idx]

DrawFor(k) == NextIndividualSample(Here, k, Val(target_values))

OfClass(pairs, c) == SelectSeq(pairs, LAMBDA e : e[2] = c)

\* C16: after a successful prepare() there is one buffer per registry
\* class and buffer i holds pairs of class registry[i] only; a draw for
\* class k appends the instances it pulls, each to the buffer of its own
\* class, and removes nothing but the front of buffer k.
C16_BufferDiscipline ==
    Prepared =>
        LET tv == Val(target_values)
            buf == Val(instance_buffer)
        IN  /\ Len(buf) = Len(tv)
            /\ \A i \in 1..Len(buf) : \A e \in 1..Len(buf[i]) : buf[i][e][2] = tv[i]
            /\ \A k \in 1..Len(tv) :
                  LET r == DrawFor(k)
                      new == PulledPairs(sample_idx, r.idx)
                  IN  \A j \in 1..Len(tv) :
                        LET grown == buf[j] \o OfClass(new, tv[j])
                        IN  IF j = k /\ ~IsSentinel(r.out)
                            THEN /\ r.buf[j] = Tail(grown)
                                 /\ <<Val(r.out.x), Val(r.out.y)>> = Head(grown)
                            ELSE r.buf[j] = grown

\* A draw that filed an instance of another class and served its own.
C16_Witness ==
    /\ Prepared
    /\ Returned
    /\ lastN = 1
    /\ draws[1].pulled >= 2
    /\ ~IsSentinel(draws[1])
    /\ \E j \in 1..Len(Registry) : j # draws[1].k /\ Val(instance_buffer)[j] # <<>>

\* Whether the wrapped stream still holds an instance of class c after
\* position a.
Remains(c, a) == \E i \in (a + 1)..Len(stream) : stream[i] = c

\* C17: a draw for class k pulls nothing when buffer k is non-empty;
\* otherwise it pulls one instance at a time and stops at the first one of
\* class k or at the first failed pull; after a draw that pulled and was
\* served, buffer k is empty.
C17_LazyPull ==
    Prepared =>
        LET tv == Val(target_values)
            buf == Val(instance_buffer)
        IN  \A k \in 1..Len(tv) :
              LET r == DrawFor(k)
              IN  /\ r.out.pulled = r.idx - sample_idx
                  /\ buf[k] # <<>> => r.out.pulled = 0
                  /\ buf[k] = <<>> =>
                        /\ \A i \in (sample_idx + 1)..(r.idx - 1) : stream[i] # tv[k]
                        /\ IF Remains(tv[k], sample_idx)
                           THEN r.idx > sample_idx /\ stream[r.idx] = tv[k]
                           ELSE r.idx = Len(stream) /\ IsSentinel(r.out)
                  /\ (r.out.pulled > 0 /\ ~IsSentinel(r.out)) => r.buf[k] = <<>>

\* A served draw that pulled several instances and left buffer k empty.
C17_Witness ==
    /\ Prepared
    /\ Returned
    /\ lastN >= 1
    /\ draws[lastN].pulled >= 2
    /\ ~IsSentinel(draws[lastN])
    /\ Val(instance_buffer)[draws[lastN].k] = <<>>
    /\ \E i \in 1..lastN : draws[i].pulled = 0 /\ ~IsSentinel(draws[i])

\* C18: the flag is set only by a failed pull made while the drawn class's
\* buffer is empty; while it is unset, a draw whose buffer is non-empty is
\* served from the buffer, also when the wrapped stream has run out.
C18_FlagOnlyByFailedPull ==
    (Prepared /\ ~no_more_samples) =>
        LET tv == Val(target_values)
            buf == Val(instance_buffer)
        IN  \A k \in 1..Len(tv) :
              LET r == DrawFor(k)
              IN  /\ r.flag <=> (buf[k] = <<>> /\ ~Remains(tv[k], sample_idx))
                  /\ r.flag => r.idx = Len(stream)
                  /\ buf[k] # <<>> =>
                        /\ ~r.flag
                        /\ <<Val(r.out.x), Val(r.out.y)>> = Head(buf[k])

\* A batch served from the buffers alone after the wrapped stream ran out.
C18_Witness ==
    /\ Prepared
    /\ Returned
    /\ ~no_more_samples
    /\ ~OrigHasMore(sample_idx)
    /\ lastN >= 2
    /\ Len(features) = lastN
    /\ \A i \in 1..lastN : draws[i].pulled = 0

\* C19: a draw for class k pulls until an instance of class k arrives or
\* a pull fails and nothing else stops it: it ends after at most as many
\* pulls as the wrapped stream has instances left, and pulls all of them
\* when none of them is of class k.
C19_OnlyExhaustionBoundsFill ==
    Prepared =>
        LET tv == Val(target_values)
            buf == Val(instance_buffer)
            left == Len(stream) - sample_idx
        IN  \A k \in 1..Len(tv) :
              LET r == DrawFor(k)
              IN  /\ r.out.pulled <= left
                  /\ IsSentinel(r.out) \/ Val(r.out.y) = tv[k]
                  /\ (buf[k] = <<>> /\ ~Remains(tv[k], sample_idx)) =>
                        r.out.pulled = left /\ r.flag
                  /\ (buf[k] = <<>> /\ Remains(tv[k], sample_idx)) =>
                        ~IsSentinel(r.out)

\* One draw that consumed a whole wrapped stream of at least three
\* instances.
C19_Witness ==
    /\ Prepared
    /\ Returned
    /\ lastN = 1
    /\ Len(stream) >= 3
    /\ draws[1].pulled = Len(stream)

NothingReturned(n) ==
    ~NextSampleWouldRaise(n) /\ NextSampleResults(n) = {<<(<<>>), (<<>>)>>}

\* C20: after a successful prepare(), when has_more_samples()
\* is false, next_sample(n) returns two empty sequences for every n.
C20_HasMoreFalseIsFinished ==
    (Prepared /\ ~has_more_samples) => \A n \in 0..MaxBatch : NothingReturned(n)

====
